---- MODULE Spec2Model ----
(***************************************************************************)
(* A model of the MineSweeper engine of src/src/lib/index.ts.              *)
(*                                                                         *)
(* The state is the private data of one engine (height, width,             *)
(* mineQuantity, showMinesOnlyOnFailed, context), the loop counter of the  *)
(* mine-placing loop of restart() and the error thrown by the constructor  *)
(* ("ok" when it threw none).  Every public call is an operator           *)
(* that gives the context after the call and the value returned (or the    *)
(* error thrown); the actions apply these operators to the state.          *)
(* context.startedAt and getUsedTime are wall-clock reads and are left     *)
(* out.  Coordinates are integers: the Number.isInteger test of            *)
(* _checkCoordinate is always true here.                                   *)
(***************************************************************************)
EXTENDS Integers, Sequences, FiniteSets, TLC

\* Bounds of the model: boards of at most MaxWidth columns, MaxHeight rows and
\* MaxCells cells, with at most MaxMines mines.
MaxWidth == 3
MaxHeight == 2
MaxCells == 6
MaxMines == 2
MaxColumn == 5

\* enum EBlockStatus
UNKNWON == -1
MARKED == -2
QUESTION == -3
WRONG == -4
MINE == -5
DEAD == -6

\* const MINE_FLAG
MINE_FLAG == -1

\* enum EGameStatus
PLAYING == "PLAYING"
WIN == "WIN"
FAILED == "FAILED"

\* enum EMarkStyle
EMarkStyle == {"UNMARKED", "MINE", "QUESTION"}

\* What a public call hands back: a boolean of mark, a status of sweep and
\* explore, or the error thrown by getBlock.
RET_TRUE == "true"
RET_FALSE == "false"
OUT_TO_BOUNDARY == "OUT_TO_BOUNDARY"

VARIABLES height, width, mineQuantity, showMinesOnlyOnFailed, context, mines, error

vars == <<height, width, mineQuantity, showMinesOnlyOnFailed, context, mines, error>>

Rows == 0 .. (height - 1)
Cols == 0 .. (width - 1)

\* Mutant of the constructor's validation: as many mines as cells are let in.
constructorCheck_FullBoard(h, w, m) ==
    IF m < 1 \/ h < 2 \/ m < 2 THEN "INVALID_GAME_MAP"
    ELSE IF m > w * h THEN "TOO_MANY_MINES"
    ELSE "ok"

\* The constructor's validation: the error it throws, or "ok".
constructorCheck(h, w, m) ==
    IF m < 1 \/ h < 2 \/ m < 2 THEN "INVALID_GAME_MAP"
    ELSE IF m >= w * h THEN "TOO_MANY_MINES"
    ELSE "ok"

checkCoordinate(x, y) ==
    x >= 0 /\ x < width /\ y >= 0 /\ y < height

\* getBlock: the visible value of a cell, or the error OUT_TO_BOUNDARY.
getBlock(ctx, x, y) ==
    IF ~checkCoordinate(x, y)
    THEN [threw |-> TRUE, value |-> 0]
    ELSE [threw |-> FALSE, value |-> ctx.blocks[y][x]]

\* Mutant of checkWin: the mines are not flagged when the game is won.
checkWin_NoFlags(ctx) ==
    IF ctx.unknowns = ctx.unmarkedMines
    THEN [ctx EXCEPT !.status = WIN, !.unmarkedMines = 0, !.unknowns = 0]
    ELSE ctx

\* Mutant of checkWin: the two counters are not reset when the game is won.
checkWin_KeepCounters(ctx) ==
    IF ctx.unknowns = ctx.unmarkedMines
    THEN [ctx EXCEPT !.status = WIN,
                     !.blocks = [y \in Rows |-> [x \in Cols |->
                                   IF ctx.mines[y][x] = -1
                                   THEN MARKED
                                   ELSE ctx.blocks[y][x]]]]
    ELSE ctx

checkWin(ctx) ==
    IF ctx.unknowns = ctx.unmarkedMines
    THEN [ctx EXCEPT !.status = WIN,
                     !.unmarkedMines = 0,
                     !.unknowns = 0,
                     !.blocks = [y \in Rows |-> [x \in Cols |->
                                   IF ctx.mines[y][x] = -1
                                   THEN MARKED
                                   ELSE ctx.blocks[y][x]]]]
    ELSE ctx

\* The in-bounds neighbours of (x, y) in the scan order of the two loops:
\* rows y-1 .. y+1, and in each row columns x-1 .. x+1.
findBlocksAround(x, y) ==
    LET cand == [k \in 1 .. 9 |-> [x |-> x - 1 + ((k - 1) % 3),
                                   y |-> y - 1 + ((k - 1) \div 3)]]
        keep(b) == ~(b.x = x /\ b.y = y) /\ checkCoordinate(b.x, b.y)
    IN SelectSeq(cand, keep)

\* Mutant of _die: showMinesOnlyOnFailed is not looked at, the numbers are
\* always shown.
die_IgnoreOption(ctx, x, y) ==
    LET c1 == [ctx EXCEPT !.status = FAILED, !.blocks[y][x] = DEAD]
        after(cy, cx) ==
            LET blk == c1.blocks[cy][cx] IN
            CASE blk = MARKED ->
                    IF c1.mines[cy][cx] # MINE_FLAG THEN WRONG ELSE blk
              [] blk = QUESTION \/ blk = UNKNWON ->
                    IF c1.mines[cy][cx] = MINE_FLAG THEN MINE
                    ELSE c1.mines[cy][cx]
              [] OTHER -> blk
    IN [c1 EXCEPT !.blocks = [cy \in Rows |-> [cx \in Cols |-> after(cy, cx)]]]

\* Mutant of _die: the swept mine is shown as any other mine.
die_ExplodedAsMine(ctx, x, y) ==
    LET c1 == [ctx EXCEPT !.status = FAILED, !.blocks[y][x] = MINE]
        after(cy, cx) ==
            LET blk == c1.blocks[cy][cx] IN
            CASE blk = MARKED ->
                    IF c1.mines[cy][cx] # MINE_FLAG THEN WRONG ELSE blk
              [] blk = QUESTION \/ blk = UNKNWON ->
                    IF c1.mines[cy][cx] = MINE_FLAG THEN MINE
                    ELSE IF ~showMinesOnlyOnFailed THEN c1.mines[cy][cx]
                    ELSE blk
              [] OTHER -> blk
    IN [c1 EXCEPT !.blocks = [cy \in Rows |-> [cx \in Cols |-> after(cy, cx)]]]

\* Mutant of _die: a flag on a cell without a mine is left as it is.
die_KeepWrongFlags(ctx, x, y) ==
    LET c1 == [ctx EXCEPT !.status = FAILED, !.blocks[y][x] = DEAD]
        after(cy, cx) ==
            LET blk == c1.blocks[cy][cx] IN
            CASE blk = QUESTION \/ blk = UNKNWON ->
                    IF c1.mines[cy][cx] = MINE_FLAG THEN MINE
                    ELSE IF ~showMinesOnlyOnFailed THEN c1.mines[cy][cx]
                    ELSE blk
              [] OTHER -> blk
    IN [c1 EXCEPT !.blocks = [cy \in Rows |-> [cx \in Cols |-> after(cy, cx)]]]

die(ctx, x, y) ==
    LET c1 == [ctx EXCEPT !.status = FAILED, !.blocks[y][x] = DEAD]
        after(cy, cx) ==
            LET blk == c1.blocks[cy][cx] IN
            CASE blk = MARKED ->
                    IF c1.mines[cy][cx] # MINE_FLAG THEN WRONG ELSE blk
              [] blk = QUESTION \/ blk = UNKNWON ->
                    IF c1.mines[cy][cx] = MINE_FLAG THEN MINE
                    ELSE IF ~showMinesOnlyOnFailed THEN c1.mines[cy][cx]
                    ELSE blk
              [] OTHER -> blk
    IN [c1 EXCEPT !.blocks = [cy \in Rows |-> [cx \in Cols |-> after(cy, cx)]]]

\* Mutant of the first loop of _cleanBlock: a revealed neighbour is not
\* taken off the counter of unknown blocks.
RECURSIVE cleanLoop_NoCount(_, _, _, _)
cleanLoop_NoCount(ctx, blks, i, nextBlks) ==
    IF i > Len(blks) THEN [ctx |-> ctx, nextBlks |-> nextBlks]
    ELSE LET b == blks[i] IN
         IF ctx.blocks[b.y][b.x] # UNKNWON
         THEN cleanLoop_NoCount(ctx, blks, i + 1, nextBlks)
         ELSE cleanLoop_NoCount([ctx EXCEPT !.blocks[b.y][b.x] = ctx.mines[b.y][b.x]],
                                blks, i + 1,
                                IF ctx.mines[b.y][b.x] = 0
                                THEN Append(nextBlks, b) ELSE nextBlks)

\* The first loop of _cleanBlock, from the i-th neighbour on: reveal every
\* neighbour that is still UNKNWON and collect the ones with count 0.
RECURSIVE cleanLoop(_, _, _, _)
cleanLoop(ctx, blks, i, nextBlks) ==
    IF i > Len(blks) THEN [ctx |-> ctx, nextBlks |-> nextBlks]
    ELSE LET b == blks[i] IN
         IF ctx.blocks[b.y][b.x] # UNKNWON
         THEN cleanLoop(ctx, blks, i + 1, nextBlks)
         ELSE cleanLoop([ctx EXCEPT !.blocks[b.y][b.x] = ctx.mines[b.y][b.x],
                                    !.unknowns = @ - 1],
                        blks, i + 1,
                        IF ctx.mines[b.y][b.x] = 0
                        THEN Append(nextBlks, b) ELSE nextBlks)

RECURSIVE cleanBlock(_, _, _)
RECURSIVE cleanNext(_, _, _)
\* The second loop of _cleanBlock: recurse into the collected cells in order.
cleanNext(ctx, nextBlks, i) ==
    IF i > Len(nextBlks) THEN ctx
    ELSE cleanNext(cleanBlock(ctx, nextBlks[i].x, nextBlks[i].y), nextBlks, i + 1)

\* Mutant of _cleanBlock: the blocks around (x, y) are revealed and the fill
\* stops there, without going on from the ones that show 0.
cleanBlock_NoRecursion(ctx, x, y) ==
    IF ~checkCoordinate(x, y) THEN ctx
    ELSE IF ctx.mines[y][x] # 0 THEN ctx
    ELSE cleanLoop(ctx, findBlocksAround(x, y), 1, <<>>).ctx

cleanBlock(ctx, x, y) ==
    IF ~checkCoordinate(x, y) THEN ctx
    ELSE IF ctx.mines[y][x] # 0 THEN ctx
    ELSE LET r == cleanLoop(ctx, findBlocksAround(x, y), 1, <<>>)
         IN cleanNext(r.ctx, r.nextBlks, 1)

\* Mutant of sweep: the swept block is not taken off the counter of unknown
\* blocks.
sweep_NoCount(ctx, x, y) ==
    LET blk == getBlock(ctx, x, y) IN
    IF blk.threw THEN [ctx |-> ctx, ret |-> OUT_TO_BOUNDARY]
    ELSE IF ctx.status # PLAYING \/ blk.value # UNKNWON
    THEN [ctx |-> ctx, ret |-> ctx.status]
    ELSE IF ctx.mines[y][x] = MINE_FLAG
    THEN LET c == die(ctx, x, y) IN [ctx |-> c, ret |-> c.status]
    ELSE LET c1 == [ctx EXCEPT !.blocks[y][x] = ctx.mines[y][x]]
             c2 == cleanBlock(c1, x, y)
             c4 == checkWin(c2)
         IN [ctx |-> c4, ret |-> c4.status]

\* sweep: the context after the call and the value returned (or the error).
sweep(ctx, x, y) ==
    LET blk == getBlock(ctx, x, y) IN
    IF blk.threw THEN [ctx |-> ctx, ret |-> OUT_TO_BOUNDARY]
    ELSE IF ctx.status # PLAYING \/ blk.value # UNKNWON
    THEN [ctx |-> ctx, ret |-> ctx.status]
    ELSE IF ctx.mines[y][x] = MINE_FLAG
    THEN LET c == die(ctx, x, y) IN [ctx |-> c, ret |-> c.status]
    ELSE LET c1 == [ctx EXCEPT !.blocks[y][x] = ctx.mines[y][x]]
             c2 == cleanBlock(c1, x, y)
             c3 == [c2 EXCEPT !.unknowns = @ - 1]
             c4 == checkWin(c3)
         IN [ctx |-> c4, ret |-> c4.status]

\* Mutant of case MARKED of mark: flagging a flagged block counts it again.
markMarked_Recount(ctx, x, y, style) ==
    CASE style = "MINE" ->
            [ctx EXCEPT !.unmarkedMines = @ - 1, !.unknowns = @ - 1]
      [] style = "UNMARKED" ->
            [ctx EXCEPT !.unmarkedMines = @ + 1,
                        !.unknowns = @ + 1,
                        !.blocks[y][x] = UNKNWON]
      [] style = "QUESTION" ->
            [ctx EXCEPT !.unmarkedMines = @ + 1,
                        !.unknowns = @ + 1,
                        !.blocks[y][x] = QUESTION]

\* Mutant of case MARKED of mark: taking a flag off does not give the mine
\* back to the counter of unmarked mines.
markMarked_KeepMineCount(ctx, x, y, style) ==
    CASE style = "MINE" -> ctx
      [] style = "UNMARKED" ->
            [ctx EXCEPT !.unknowns = @ + 1,
                        !.blocks[y][x] = UNKNWON]
      [] style = "QUESTION" ->
            [ctx EXCEPT !.unmarkedMines = @ + 1,
                        !.unknowns = @ + 1,
                        !.blocks[y][x] = QUESTION]

\* Mutant of case MARKED of mark: turning a flag into a question mark does
\* not give the block back to the counter of unknown blocks.
markMarked_QuestionKeepsUnknowns(ctx, x, y, style) ==
    CASE style = "MINE" -> ctx
      [] style = "UNMARKED" ->
            [ctx EXCEPT !.unmarkedMines = @ + 1,
                        !.unknowns = @ + 1,
                        !.blocks[y][x] = UNKNWON]
      [] style = "QUESTION" ->
            [ctx EXCEPT !.unmarkedMines = @ + 1,
                        !.blocks[y][x] = QUESTION]

\* case EBlockStatus.MARKED of mark: the context after the inner switch.
markMarked(ctx, x, y, style) ==
    CASE style = "MINE" -> ctx
      [] style = "UNMARKED" ->
            [ctx EXCEPT !.unmarkedMines = @ + 1,
                        !.unknowns = @ + 1,
                        !.blocks[y][x] = UNKNWON]
      [] style = "QUESTION" ->
            [ctx EXCEPT !.unmarkedMines = @ + 1,
                        !.unknowns = @ + 1,
                        !.blocks[y][x] = QUESTION]

\* Mutant of case QUESTION of mark: flagging a questioned block leaves the
\* counter of unknown blocks alone.
markQuestion_KeepUnknowns(ctx, x, y, style) ==
    CASE style = "MINE" ->
            [ctx EXCEPT !.unmarkedMines = @ - 1,
                        !.blocks[y][x] = MARKED]
      [] style = "UNMARKED" -> [ctx EXCEPT !.blocks[y][x] = UNKNWON]
      [] style = "QUESTION" -> ctx

\* case EBlockStatus.QUESTION of mark.
markQuestion(ctx, x, y, style) ==
    CASE style = "MINE" ->
            [ctx EXCEPT !.unmarkedMines = @ - 1,
                        !.unknowns = @ - 1,
                        !.blocks[y][x] = MARKED]
      [] style = "UNMARKED" -> [ctx EXCEPT !.blocks[y][x] = UNKNWON]
      [] style = "QUESTION" -> ctx

\* Mutant of case UNKNWON of mark: only a flag on a real mine takes a mine
\* off the counter of unmarked mines.
markUnknown_OnlyRealMines(ctx, x, y, style) ==
    CASE style = "MINE" ->
            [ctx EXCEPT !.unmarkedMines =
                            IF ctx.mines[y][x] = MINE_FLAG THEN @ - 1 ELSE @,
                        !.unknowns = @ - 1,
                        !.blocks[y][x] = MARKED]
      [] style = "UNMARKED" -> ctx
      [] style = "QUESTION" -> [ctx EXCEPT !.blocks[y][x] = QUESTION]

\* case EBlockStatus.UNKNWON of mark.
markUnknown(ctx, x, y, style) ==
    CASE style = "MINE" ->
            [ctx EXCEPT !.unmarkedMines = @ - 1,
                        !.unknowns = @ - 1,
                        !.blocks[y][x] = MARKED]
      [] style = "UNMARKED" -> ctx
      [] style = "QUESTION" -> [ctx EXCEPT !.blocks[y][x] = QUESTION]

\* Mutant of mark: the status of the game is not tested.
mark_NoStatusTest(ctx, x, y, style) ==
    LET blk == getBlock(ctx, x, y) IN
    IF blk.threw THEN [ctx |-> ctx, ret |-> OUT_TO_BOUNDARY]
    ELSE CASE blk.value = MARKED ->
                [ctx |-> checkWin(markMarked(ctx, x, y, style)), ret |-> RET_TRUE]
           [] blk.value = QUESTION ->
                [ctx |-> checkWin(markQuestion(ctx, x, y, style)), ret |-> RET_TRUE]
           [] blk.value = UNKNWON ->
                [ctx |-> checkWin(markUnknown(ctx, x, y, style)), ret |-> RET_TRUE]
           [] OTHER -> [ctx |-> ctx, ret |-> RET_FALSE]

\* mark: the context after the call and the value returned (or the error).
mark(ctx, x, y, style) ==
    IF ctx.status # PLAYING THEN [ctx |-> ctx, ret |-> RET_FALSE]
    ELSE LET blk == getBlock(ctx, x, y) IN
    IF blk.threw THEN [ctx |-> ctx, ret |-> OUT_TO_BOUNDARY]
    ELSE CASE blk.value = MARKED ->
                [ctx |-> checkWin(markMarked(ctx, x, y, style)), ret |-> RET_TRUE]
           [] blk.value = QUESTION ->
                [ctx |-> checkWin(markQuestion(ctx, x, y, style)), ret |-> RET_TRUE]
           [] blk.value = UNKNWON ->
                [ctx |-> checkWin(markUnknown(ctx, x, y, style)), ret |-> RET_TRUE]
           [] OTHER -> [ctx |-> ctx, ret |-> RET_FALSE]

\* The number of blocks of blks that are MARKED (the reduce of explore).
RECURSIVE countMarks(_, _, _)
countMarks(ctx, blks, i) ==
    IF i > Len(blks) THEN 0
    ELSE (IF ctx.blocks[blks[i].y][blks[i].x] = MARKED THEN 1 ELSE 0)
         + countMarks(ctx, blks, i + 1)

\* The sweeping loop of explore, from the i-th neighbour on.
RECURSIVE exploreLoop(_, _, _)
exploreLoop(ctx, blks, i) ==
    IF i > Len(blks) THEN ctx
    ELSE LET b == blks[i]
             c == IF ctx.blocks[b.y][b.x] = UNKNWON
                  THEN sweep(ctx, b.x, b.y).ctx
                  ELSE ctx
         IN IF c.status # PLAYING THEN c
            ELSE exploreLoop(c, blks, i + 1)

\* Mutant of explore: the neighbours are swept only when there are more
\* flags around the block than its number.
explore_StrictMarks(ctx, x, y) ==
    LET blk == getBlock(ctx, x, y) IN
    IF blk.threw THEN [ctx |-> ctx, ret |-> OUT_TO_BOUNDARY]
    ELSE IF ctx.status # PLAYING \/ blk.value < 0
    THEN [ctx |-> ctx, ret |-> ctx.status]
    ELSE LET blks == findBlocksAround(x, y)
             marks == countMarks(ctx, blks, 1)
             c == IF marks > ctx.mines[y][x]
                  THEN exploreLoop(ctx, blks, 1)
                  ELSE ctx
         IN [ctx |-> c, ret |-> c.status]

\* explore: the context after the call and the value returned (or the error).
explore(ctx, x, y) ==
    LET blk == getBlock(ctx, x, y) IN
    IF blk.threw THEN [ctx |-> ctx, ret |-> OUT_TO_BOUNDARY]
    ELSE IF ctx.status # PLAYING \/ blk.value < 0
    THEN [ctx |-> ctx, ret |-> ctx.status]
    ELSE LET blks == findBlocksAround(x, y)
             marks == countMarks(ctx, blks, 1)
             c == IF marks >= ctx.mines[y][x]
                  THEN exploreLoop(ctx, blks, 1)
                  ELSE ctx
         IN [ctx |-> c, ret |-> c.status]

\* getRestMineQuantity: the counter of unmarked mines, as it is.
getRestMineQuantity(ctx) == ctx.unmarkedMines

\* The blocks of a fresh context are all UNKNWON, its mine map all 0.
newContext ==
    [blocks |-> [y \in Rows |-> [x \in Cols |-> UNKNWON]],
     mines |-> [y \in Rows |-> [x \in Cols |-> 0]],
     unmarkedMines |-> mineQuantity,
     status |-> PLAYING,
     unknowns |-> height * width]

\* Mutant of the mine-placing loop: the neighbours that hold a mine are
\* counted up like the others.
putMine_CountMines(m, x, y) ==
    LET m1 == [m EXCEPT ![y][x] = MINE_FLAG]
    IN [i \in Rows |-> [j \in Cols |->
          IF i >= y - 1 /\ i < y + 2 /\ j >= x - 1 /\ j < x + 2
             /\ ~(i = y /\ j = x)
          THEN m1[i][j] + 1
          ELSE m1[i][j]]]

\* One accepted iteration of the mine-placing loop: put a mine on (x, y) and
\* add one to every in-bounds neighbour that is not a mine.
putMine(m, x, y) ==
    LET m1 == [m EXCEPT ![y][x] = MINE_FLAG]
    IN [i \in Rows |-> [j \in Cols |->
          IF i >= y - 1 /\ i < y + 2 /\ j >= x - 1 /\ j < x + 2
             /\ m1[i][j] # MINE_FLAG
          THEN m1[i][j] + 1
          ELSE m1[i][j]]]

----
\* The engine right after the constructor has accepted its parameters and
\* restart() has built the fresh context, before the first mine is placed.
Init ==
    /\ height \in 0 .. MaxHeight
    /\ width \in 0 .. MaxWidth
    /\ mineQuantity \in 0 .. MaxMines
    /\ height * width <= MaxCells
    /\ constructorCheck(height, width, mineQuantity) = "ok"
    /\ showMinesOnlyOnFailed \in BOOLEAN
    /\ context = newContext
    /\ mines = mineQuantity
    /\ error = "ok"

\* Mutant of restart(): the status of the old context is carried over.
Restart_KeepStatus ==
    /\ mines = 0
    /\ context' = [newContext EXCEPT !.status = context.status]
    /\ mines' = mineQuantity
    /\ UNCHANGED <<height, width, mineQuantity, showMinesOnlyOnFailed, error>>

\* restart(): the new context (lines 618-640); the loop follows in RestartLoop.
Restart ==
    /\ mines = 0
    /\ context' = newContext
    /\ mines' = mineQuantity
    /\ UNCHANGED <<height, width, mineQuantity, showMinesOnlyOnFailed, error>>

\* Mutant of the mine-placing loop: the counter of mines to place is not
\* taken down.
RestartLoop_NoDecrement ==
    /\ mines # 0
    /\ \E y \in Rows, x \in Cols :
          IF context.mines[y][x] = MINE_FLAG
          THEN UNCHANGED <<context, mines>>
          ELSE /\ context' = [context EXCEPT !.mines = putMine(context.mines, x, y)]
               /\ mines' = mines
    /\ UNCHANGED <<height, width, mineQuantity, showMinesOnlyOnFailed, error>>

\* One iteration of `while (mines)` with the random pick (x, y).
RestartLoop ==
    /\ mines # 0
    /\ \E y \in Rows, x \in Cols :
          IF context.mines[y][x] = MINE_FLAG
          THEN UNCHANGED <<context, mines>>
          ELSE /\ context' = [context EXCEPT !.mines = putMine(context.mines, x, y)]
               /\ mines' = mines - 1
    /\ UNCHANGED <<height, width, mineQuantity, showMinesOnlyOnFailed, error>>

\* Arguments of the public calls: every cell of the board, and the two
\* points off its corners (both coordinates too small, both too large); a
\* call with a point outside the board throws and changes nothing.
Args == {<<x, y>> : x \in Cols, y \in Rows} \cup {<<-1, -1>>, <<width, height>>}

Sweep(x, y) ==
    /\ mines = 0
    /\ context' = sweep(context, x, y).ctx
    /\ UNCHANGED <<height, width, mineQuantity, showMinesOnlyOnFailed, mines, error>>

Mark(x, y, style) ==
    /\ mines = 0
    /\ context' = mark(context, x, y, style).ctx
    /\ UNCHANGED <<height, width, mineQuantity, showMinesOnlyOnFailed, mines, error>>

Explore(x, y) ==
    /\ mines = 0
    /\ context' = explore(context, x, y).ctx
    /\ UNCHANGED <<height, width, mineQuantity, showMinesOnlyOnFailed, mines, error>>

Next ==
    \/ Restart
    \/ RestartLoop
    \/ \E a \in Args, style \in EMarkStyle : Mark(a[1], a[2], style)
    \/ \E a \in Args : Sweep(a[1], a[2])
    \/ \E a \in Args : Explore(a[1], a[2])

Spec == Init /\ [][Next]_vars

\* The engine after the constructor, on a board one cell wide and up to
\* MaxColumn cells high, with showMinesOnlyOnFailed left at its default: the
\* boards on which a fill goes further than the cells around the swept one.
InitColumn ==
    /\ height \in 0 .. MaxColumn
    /\ width = 1
    /\ mineQuantity \in 0 .. MaxMines
    /\ constructorCheck(height, width, mineQuantity) = "ok"
    /\ showMinesOnlyOnFailed = FALSE
    /\ context = newContext
    /\ mines = mineQuantity
    /\ error = "ok"

\* The game on the boards of Init and on the one-column boards.
SpecBoards == (Init \/ InitColumn) /\ [][Next]_vars

\* The constructor called with any parameters: it throws, and there is no
\* engine (no context), or it accepts them and runs restart().
noContext ==
    [blocks |-> <<>>, mines |-> <<>>, unmarkedMines |-> 0,
     status |-> "NONE", unknowns |-> 0]

InitCtor ==
    /\ height \in -1 .. MaxHeight
    /\ width \in -1 .. MaxWidth
    /\ mineQuantity \in -1 .. MaxMines
    /\ showMinesOnlyOnFailed \in BOOLEAN
    /\ error = constructorCheck(height, width, mineQuantity)
    /\ error = "ok" => height * width <= MaxCells
    /\ context = IF error = "ok" THEN newContext ELSE noContext
    /\ mines = IF error = "ok" THEN mineQuantity ELSE 0

\* The calls of restart() alone: the one of the constructor and later ones.
NextCtor ==
    \/ error = "ok" /\ Restart
    \/ error = "ok" /\ RestartLoop

\* A random pick that is fair finds a cell without a mine in the end: the
\* loop does not reject for ever while such a cell exists.
SpecCtor == InitCtor /\ [][NextCtor]_vars /\ WF_vars(RestartLoop)

----
\* Vocabulary of the properties.
Cells == {<<x, y>> : x \in Cols, y \in Rows}
Block(c) == context.blocks[c[2]][c[1]]
IsMine(c) == context.mines[c[2]][c[1]] = MINE_FLAG
Count(c) == context.mines[c[2]][c[1]]
Terminal == context.status \in {WIN, FAILED}
\* The restart loop has finished: the engine accepts calls.
Ready == mines = 0

\* C1: the game is Won exactly when no mine has been swept and every cell
\* without a mine has been revealed: it is never Won while a cell without a
\* mine is still Hidden, Flagged or Questioned, and never still Playing once
\* the last such cell shows its number.
C1_WonIffAllSafeRevealed ==
    (context.status = WIN)
        <=> (/\ \A c \in Cells : Block(c) # DEAD
             /\ \A c \in Cells : ~IsMine(c) => Block(c) >= 0)

\* A game won by a sweep whose flood-fill revealed a cell with count 0.
C1_Witness ==
    /\ Ready
    /\ context.status = WIN
    /\ \E c \in Cells : Block(c) = 0

\* C2: in every Won state both counters are 0, every mine reads Flagged and
\* every other cell reads its count of neighbouring mines, a number 0..8.
C2_WonBoard ==
    context.status = WIN =>
        /\ context.unmarkedMines = 0
        /\ context.unknowns = 0
        /\ \A c \in Cells :
              IF IsMine(c) THEN Block(c) = MARKED
              ELSE Block(c) = Count(c) /\ Block(c) \in 0 .. 8

\* A won game on a board of two rows and three columns.
C2_Witness ==
    /\ context.status = WIN
    /\ width = 3
    /\ \E c \in Cells : Block(c) = MARKED
    /\ \E c \in Cells : Block(c) >= 1

\* C3: sweeping a Hidden mine while Playing gives status Lost and makes that
\* cell, and no other, ExplodedMine; when showMinesOnlyOnFailed is false every
\* other mine then reads RevealedMine (or Flagged, if it was flagged), every
\* flagged cell without a mine reads WrongFlag, every Hidden or Questioned
\* cell without a mine shows its count, and revealed numbers are unchanged.
C3_SweepMine ==
    (Ready /\ context.status = PLAYING) =>
        \A s \in Cells :
            (Block(s) = UNKNWON /\ IsMine(s)) =>
                \A r \in {sweep(context, s[1], s[2])} :
                   /\ r.ret = FAILED
                   /\ r.ctx.status = FAILED
                   /\ r.ctx.blocks[s[2]][s[1]] = DEAD
                   /\ r.ctx.mines = context.mines
                   /\ \A c \in Cells \ {s} :
                        LET after == r.ctx.blocks[c[2]][c[1]] IN
                        /\ after # DEAD
                        /\ ~showMinesOnlyOnFailed =>
                            /\ after \notin {UNKNWON, QUESTION}
                            /\ (IsMine(c) /\ Block(c) = MARKED) => after = MARKED
                            /\ (IsMine(c) /\ Block(c) # MARKED) => after = MINE
                            /\ (~IsMine(c) /\ Block(c) = MARKED) => after = WRONG
                            /\ (~IsMine(c) /\ Block(c) # MARKED) => after = Count(c)

\* A lost game that shows all five outcomes: the exploded mine, a revealed
\* mine or a flagged one, a wrong flag and a number.
C3_Witness ==
    /\ context.status = FAILED
    /\ ~showMinesOnlyOnFailed
    /\ \E c \in Cells : Block(c) = DEAD
    /\ \E c \in Cells : Block(c) = WRONG
    /\ \E c \in Cells : Block(c) \in {MINE, MARKED} /\ IsMine(c)
    /\ \E c \in Cells : Block(c) >= 0

\* C4: Won and Lost are terminal.  In a Won or Lost state every mark, sweep
\* and explore on a cell of the board leaves the context as it is, mark
\* returns false and sweep and explore return the status; and a step out of
\* a Won or Lost state either keeps the status or is a restart to Playing,
\* never Won to Lost or Lost to Won.
C4_TerminalCalls ==
    Terminal =>
        \A c \in Cells :
            /\ \A style \in EMarkStyle :
                  mark(context, c[1], c[2], style) = [ctx |-> context, ret |-> RET_FALSE]
            /\ sweep(context, c[1], c[2]) = [ctx |-> context, ret |-> context.status]
            /\ explore(context, c[1], c[2]) = [ctx |-> context, ret |-> context.status]

C4_TerminalSteps ==
    Terminal =>
        \/ context' = context /\ mines' = mines
        \/ context' = newContext /\ mines' = mineQuantity

\* C4: both parts, the calls in every terminal state and the steps out of it.
C4_Terminal == [](C4_TerminalCalls) /\ [][C4_TerminalSteps]_vars

\* A lost game that still has a Hidden and a Questioned cell, on which sweep
\* and mark would act if the game were Playing.
C4_Witness ==
    /\ context.status = FAILED
    /\ \E c \in Cells : Block(c) = UNKNWON
    /\ \E c \in Cells : Block(c) = QUESTION

\* The four points just outside the board.
OutOfRange == {<<-1, 0>>, <<width, 0>>, <<0, -1>>, <<0, height>>}

\* C5: for coordinates outside the grid sweep and explore return the
\* unchanged status and mark returns false, with no error raised and no
\* state changed.  (The code raises OUT_TO_BOUNDARY: sweep and explore call
\* getBlock first, and so does mark while the game is Playing.)
C5_OutOfRangeSilent ==
    Ready =>
        \A a \in OutOfRange :
            /\ sweep(context, a[1], a[2]) = [ctx |-> context, ret |-> context.status]
            /\ explore(context, a[1], a[2]) = [ctx |-> context, ret |-> context.status]
            /\ \A style \in EMarkStyle :
                  mark(context, a[1], a[2], style) = [ctx |-> context, ret |-> RET_FALSE]

\* The visible state a mark style asks for.
StyleTarget(style) ==
    CASE style = "MINE" -> MARKED
      [] style = "UNMARKED" -> UNKNWON
      [] style = "QUESTION" -> QUESTION

\* The change of both counters when a cell goes from state blk to target.
StyleDelta(blk, target) ==
    IF blk # MARKED /\ target = MARKED THEN -1
    ELSE IF blk = MARKED /\ target # MARKED THEN 1
    ELSE 0

\* C6: mark on a Hidden, Flagged or Questioned cell of a Playing game returns
\* true and does what the transition table says: the cell takes the state
\* asked for, both counters go down by one when a flag is set and up by one
\* when a flag is taken away, and nothing else changes (no other cell, not
\* the status).  On a revealed cell, or when the game is not Playing, mark
\* returns false and changes nothing.
C6_MarkTable ==
    Ready =>
        \A c \in Cells, style \in EMarkStyle :
            mark(context, c[1], c[2], style) =
                IF context.status = PLAYING /\ Block(c) \in {UNKNWON, MARKED, QUESTION}
                THEN [ctx |-> [context EXCEPT
                                 !.blocks[c[2]][c[1]] = StyleTarget(style),
                                 !.unmarkedMines = @ + StyleDelta(Block(c), StyleTarget(style)),
                                 !.unknowns = @ + StyleDelta(Block(c), StyleTarget(style))],
                      ret |-> RET_TRUE]
                ELSE [ctx |-> context, ret |-> RET_FALSE]

\* C6, over a whole game: in every state that play reaches, mark on any cell
\* with any style returns what the transition table gives and changes the
\* cell and the two counters as the table says, and nothing else.
C6_MarkTableAlways == []C6_MarkTable

\* A Playing game in which marks have set a flag and a question mark and a
\* sweep has revealed a cell.
C6_Witness ==
    /\ context.status = PLAYING
    /\ \E c \in Cells : Block(c) = MARKED
    /\ \E c \in Cells : Block(c) = QUESTION
    /\ \E c \in Cells : Block(c) >= 0

\* C7: mark is idempotent: in a Playing game a second identical mark call
\* leaves the context (grid, both counters, status) as the first one left it.
C7_MarkIdempotent ==
    (Ready /\ context.status = PLAYING) =>
        \A c \in Cells, style \in EMarkStyle :
            \A once \in {mark(context, c[1], c[2], style).ctx} :
                mark(once, c[1], c[2], style).ctx = once

\* C7, over a whole game: in every Playing state that play reaches, a mark
\* call made twice leaves the context as the first call left it.
C7_MarkIdempotentAlways == []C7_MarkIdempotent

\* A Playing game with two flags, one of them on a cell without a mine, so
\* that the counter of unmarked mines is down by two.
C7_Witness ==
    /\ context.status = PLAYING
    /\ context.unmarkedMines = mineQuantity - 2
    /\ \E c \in Cells : Block(c) = MARKED /\ ~IsMine(c)

\* The number of cells that read Hidden or Questioned.
HiddenCells == Cardinality({c \in Cells : Block(c) \in {UNKNWON, QUESTION}})

\* C8 as stated: in every state, Lost ones too, the counter of unknown blocks
\* is the number of cells that read Hidden or Questioned.
C8_HiddenCountAlways ==
    context.unknowns = HiddenCells

\* C8 amended: the counter is that number in every Playing and Won state.
\* (_die rewrites the cells and leaves the counter as it was.)
C8_HiddenCountUntilLost ==
    context.status \in {PLAYING, WIN} => context.unknowns = HiddenCells

\* A Playing game after a flood-fill (a revealed 0) with a flag and a
\* question mark on the board.
C8_Witness ==
    /\ context.status = PLAYING
    /\ \E c \in Cells : Block(c) = 0
    /\ \E c \in Cells : Block(c) = MARKED
    /\ \E c \in Cells : Block(c) = QUESTION

\* C9: the status is Won exactly when the two counters are equal: they
\* differ in every Playing and Lost state and are both 0 in every Won state.
C9_WonIffCountersEqual ==
    /\ (context.status = WIN) <=> (context.unknowns = context.unmarkedMines)
    /\ context.status = WIN => context.unknowns = 0 /\ context.unmarkedMines = 0

\* A lost game in which as many cells were flagged as there are mines, so
\* that the counter of unmarked mines is 0 and no cell is left Hidden.
C9_Witness ==
    /\ context.status = FAILED
    /\ context.unmarkedMines = 0
    /\ HiddenCells = 0

\* The number of mines among the neighbours of cell c.
MinesAround(c) ==
    Cardinality({d \in Cells : /\ d # c
                               /\ d[1] - c[1] \in -1 .. 1
                               /\ d[2] - c[2] \in -1 .. 1
                               /\ IsMine(d)})

\* C10: once restart has placed its mines, mineQuantity cells hold a mine and
\* every other cell holds the number of mines among its neighbours.
C10_MineMap ==
    Ready =>
        /\ Cardinality({c \in Cells : IsMine(c)}) = mineQuantity
        /\ \A c \in Cells : ~IsMine(c) => Count(c) = MinesAround(c)

\* A finished placement with two mines next to each other: the second one
\* was put on a cell whose count the first had raised.
C10_Witness ==
    /\ Ready
    /\ \E c, d \in Cells : /\ c # d
                           /\ IsMine(c) /\ IsMine(d)
                           /\ d[1] - c[1] \in -1 .. 1
                           /\ d[2] - c[2] \in -1 .. 1

\* The visible grid and the counters are those of a new game.
FreshGame(ctx) ==
    /\ ctx.status = PLAYING
    /\ \A c \in Cells : ctx.blocks[c[2]][c[1]] = UNKNWON
    /\ ctx.unmarkedMines = mineQuantity
    /\ ctx.unknowns = width * height

\* C11: restart, called in any state, gives a new game: from its first step
\* (the new context, with an empty mine map) to its last (the last mine
\* placed) the status is Playing, every cell is Hidden, the counters are
\* mineQuantity and width*height, and width, height, mineQuantity and
\* showMinesOnlyOnFailed are the ones of before.
C11_RestartFresh ==
    [][(mines' # mines) =>
          /\ FreshGame(context')
          /\ UNCHANGED <<height, width, mineQuantity, showMinesOnlyOnFailed>>
          /\ (mines = 0) =>
                /\ mines' = mineQuantity
                /\ \A c \in Cells : context'.mines[c[2]][c[1]] = 0]_vars

\* A lost game with a wrong flag, revealed cells and a counter of unmarked
\* mines that is no longer mineQuantity: the state restart is called in.
C11_Witness ==
    /\ Ready
    /\ context.status = FAILED
    /\ context.unmarkedMines # mineQuantity
    /\ context.unknowns # width * height
    /\ \E c \in Cells : Block(c) = WRONG

\* C12: the constructor throws INVALID_GAME_MAP when mineQuantity < 2 or
\* height < 2, else TOO_MANY_MINES when mineQuantity >= width*height, and
\* else builds a new Playing game; so every engine has height >= 2,
\* width >= 1 and 2 <= mineQuantity < width*height.
C12_Constructor ==
    /\ error = IF mineQuantity < 2 \/ height < 2 THEN "INVALID_GAME_MAP"
               ELSE IF mineQuantity >= width * height THEN "TOO_MANY_MINES"
               ELSE "ok"
    /\ error = "ok" =>
          /\ height >= 2
          /\ width >= 1
          /\ 2 <= mineQuantity
          /\ mineQuantity < width * height
          /\ FreshGame(context)
          /\ Ready => Cardinality({c \in Cells : IsMine(c)}) = mineQuantity

\* The constructor called with as many mines as cells, which it refuses.
C12_Witness ==
    /\ error = "TOO_MANY_MINES"
    /\ mineQuantity = width * height

\* C19: the mine-placing loop ends (under a fair random pick), with
\* mineQuantity mines placed; while mines are still to place some cell has
\* no mine, and the counter of mines to place never goes up in the loop.
C19_LoopEnds ==
    /\ (error = "ok" /\ mines # 0) ~>
          (error = "ok" /\ mines = 0
              /\ Cardinality({c \in Cells : IsMine(c)}) = mineQuantity)
    /\ [](error = "ok" /\ mines # 0 => \E c \in Cells : ~IsMine(c))
    /\ [][mines # 0 => mines' <= mines]_vars

\* The loop has ended on the largest board, its mines placed.
C19_Witness ==
    /\ error = "ok"
    /\ Ready
    /\ width * height = MaxCells
    /\ Cardinality({c \in Cells : IsMine(c)}) = mineQuantity

\* The cells that show a flag.
Flagged == {c \in Cells : Block(c) = MARKED}

\* The cells without a mine that are not revealed.
UnrevealedSafe == {c \in Cells : ~IsMine(c) /\ Block(c) < 0}

\* C13: while Playing, getRestMineQuantity() is mineQuantity minus the number
\* of Flagged cells, whatever is under the flags; it lies between
\* mineQuantity - width*height and mineQuantity, and it is negative exactly
\* when more cells are flagged than there are mines.
C13_RestMineQuantity ==
    context.status = PLAYING =>
        \A rest \in {getRestMineQuantity(context)} :
            /\ rest = mineQuantity - Cardinality(Flagged)
            /\ rest >= mineQuantity - width * height
            /\ rest <= mineQuantity
            /\ (rest < 0) <=> (Cardinality(Flagged) > mineQuantity)

\* More flags than mines in a game still played, after a flag was taken off
\* and put back somewhere: the counter is negative.
C13_Witness ==
    /\ Ready
    /\ context.status = PLAYING
    /\ getRestMineQuantity(context) < 0
    /\ \E c \in Flagged : ~IsMine(c)
    /\ \E c \in Cells : Block(c) = QUESTION

\* The two counters of ctx are equal although a cell without a mine is not
\* revealed.
EarlyWinIn(ctx) ==
    /\ ctx.unknowns = ctx.unmarkedMines
    /\ \E c \in Cells : /\ ctx.mines[c[2]][c[1]] # MINE_FLAG
                        /\ ctx.blocks[c[2]][c[1]] < 0

\* The current state is one a caller can see, and it has an early win.
EarlyWin == Ready /\ EarlyWinIn(context)

\* The contexts restart() can end with when it has n more mines to place in
\* ctx, one for each way the random picks can fall.
RECURSIVE Placed(_, _)
Placed(ctx, n) ==
    IF n = 0 THEN {ctx}
    ELSE UNION {Placed([ctx EXCEPT !.mines = putMine(ctx.mines, c[1], c[2])], n - 1) :
                   c \in {d \in Cells : ctx.mines[d[2]][d[1]] # MINE_FLAG}}

\* The contexts one call of sweep, explore or mark leads to.
After(ctx) ==
    {sweep(ctx, c[1], c[2]).ctx : c \in Cells}
        \cup {explore(ctx, c[1], c[2]).ctx : c \in Cells}
        \cup {mark(ctx, c[1], c[2], style).ctx : c \in Cells, style \in EMarkStyle}

\* Some sequence of calls from a context of frontier reaches an early win;
\* the contexts of seen have been followed already and have none.
RECURSIVE EarlyWinFrom(_, _)
EarlyWinFrom(seen, frontier) ==
    /\ frontier # {}
    /\ \/ \E ctx \in frontier : EarlyWinIn(ctx)
       \/ \E done \in {seen \cup frontier} :
             \E next \in {(UNION {After(ctx) : ctx \in frontier}) \ done} :
                EarlyWinFrom(done, next)

\* C17 as stated, for the game that starts in the current state: with some
\* placement of the mines there is a Playing state that play reaches and a
\* sequence of mark calls after which unknowns equals unmarkedMines (the game
\* is declared Won) although a cell without a mine is not revealed.  The
\* search is over every sequence of sweep, explore and mark calls on every
\* placement, so it misses no such state of this board.
C17_EarlyWinReachable ==
    (context = newContext /\ mines = mineQuantity) =>
        \E start \in Placed(context, mines) : EarlyWinFrom({}, {start})

\* C17, amended: flags do not change the outcome of the win test. In no
\* reachable state are the two counters equal while a cell without a mine is
\* not revealed, and in a game that is not Lost they are equal as soon as no
\* such cell is left, whatever is flagged: flags on cells without a mine can
\* neither bring the win forward nor put it off.
C17_FlagsDoNotMoveTheWin ==
    /\ ~EarlyWin
    /\ (Ready /\ context.status # FAILED /\ UnrevealedSafe = {})
          => context.unknowns = context.unmarkedMines

\* The player has flagged every cell without a mine that is not revealed, and
\* no mine: the game is still played.
C17_Witness ==
    /\ Ready
    /\ context.status = PLAYING
    /\ Flagged = UnrevealedSafe
    /\ \E c \in Cells : Block(c) >= 0

\* C20: while Playing, unknowns - unmarkedMines is the number of cells
\* without a mine that are not revealed, and it is at least 1; a call of mark
\* leaves the difference and the status as they are, and a step that ends the
\* game is a step of sweep or explore.
C20_MarkKeepsDifference ==
    (Ready /\ context.status = PLAYING) =>
        /\ context.unknowns - context.unmarkedMines = Cardinality(UnrevealedSafe)
        /\ context.unknowns - context.unmarkedMines >= 1
        /\ \A c \in Cells, style \in EMarkStyle :
              \A after \in {mark(context, c[1], c[2], style).ctx} :
                  /\ after.unknowns - after.unmarkedMines
                        = context.unknowns - context.unmarkedMines
                  /\ after.status = PLAYING

C20_OnlySweepEnds ==
    (context.status = PLAYING /\ context'.status # PLAYING) =>
        \E a \in Cells :
            \/ context' = sweep(context, a[1], a[2]).ctx
            \/ context' = explore(context, a[1], a[2]).ctx

C20_Difference == [](C20_MarkKeepsDifference) /\ [][C20_OnlySweepEnds]_vars

\* A game still played with one cell without a mine left to reveal, a flag
\* on a cell that has no mine and a question mark: mark can act on them.
C20_Witness ==
    /\ Ready
    /\ context.status = PLAYING
    /\ context.unknowns - context.unmarkedMines = 1
    /\ \E c \in Flagged : ~IsMine(c)
    /\ \E c \in Cells : Block(c) = QUESTION

\* The cells around c: at most one row and one column away.
Around(c) ==
    {n \in Cells \ {c} : /\ n[1] \in (c[1] - 1) .. (c[1] + 1)
                         /\ n[2] \in (c[2] - 1) .. (c[2] + 1)}

\* The smallest set that contains S and, for each of its cells with count 0,
\* the cells around it that are Hidden in the current state.
RECURSIVE Closure(_)
Closure(S) ==
    LET T == S \cup {n \in Cells : /\ Block(n) = UNKNWON
                                   /\ \E c \in S : Count(c) = 0 /\ n \in Around(c)}
    IN IF T = S THEN S ELSE Closure(T)

\* The current context with the cells of S revealed and counted off.
Revealed(S) ==
    [context EXCEPT
        !.blocks = [y \in Rows |-> [x \in Cols |->
                      IF <<x, y>> \in S THEN context.mines[y][x]
                      ELSE context.blocks[y][x]]],
        !.unknowns = @ - Cardinality(S)]

\* C14: sweep on a Hidden cell without a mine, while Playing, reveals the
\* closure S of that cell and nothing else: each cell of S shows its count,
\* unknowns goes down by |S|, no cell of S has a mine or was Flagged or
\* Questioned, and the rest of the context is as before until the win check.
\* sweep on a cell that is not Hidden changes nothing and returns the status.
C14_FloodFill ==
    (Ready /\ context.status = PLAYING) =>
        \A c \in Cells :
            \A r \in {sweep(context, c[1], c[2])} :
                /\ (Block(c) = UNKNWON /\ ~IsMine(c)) =>
                      \A S \in {Closure({c})} :
                          /\ r.ctx = checkWin(Revealed(S))
                          /\ \A n \in S : ~IsMine(n) /\ Block(n) = UNKNWON
                /\ Block(c) # UNKNWON =>
                      r.ctx = context /\ r.ret = context.status

\* C14, over a whole game: in every Playing state that play reaches, sweep
\* on any cell reveals exactly the closure of that cell, or nothing when the
\* cell is not Hidden.
C14_FloodFillAlways == []C14_FloodFill

\* A Hidden cell of count 0 whose sweep goes on from another cell of count
\* 0 and reveals a cell that is not around the swept one.
C14_Witness ==
    /\ Ready
    /\ context.status = PLAYING
    /\ \E c \in Cells :
          /\ Block(c) = UNKNWON
          /\ Count(c) = 0
          /\ \E n \in Closure({c}) \ (Around(c) \cup {c}) :
                sweep(context, c[1], c[2]).ctx.blocks[n[2]][n[1]] = Count(n)

\* The cells of S in scan order: row after row, and in a row by column.
RECURSIVE InOrder(_)
InOrder(S) ==
    IF S = {} THEN <<>>
    ELSE LET first == CHOOSE a \in S :
                         \A b \in S : a[2] * width + a[1] <= b[2] * width + b[1]
         IN <<first>> \o InOrder(S \ {first})

\* Sweep the cells of the sequence in turn, each if it is Hidden when its
\* turn comes, and stop once the game is no longer Playing.
RECURSIVE SweepInTurn(_, _)
SweepInTurn(ctx, cells) ==
    IF cells = <<>> THEN ctx
    ELSE \* the set holds one context: the one after this cell's turn
         CHOOSE done \in
            { IF after.status # PLAYING THEN after
              ELSE SweepInTurn(after, Tail(cells)) :
              after \in { IF ctx.blocks[Head(cells)[2]][Head(cells)[1]] = UNKNWON
                          THEN sweep(ctx, Head(cells)[1], Head(cells)[2]).ctx
                          ELSE ctx } } : TRUE

\* C15: explore on a revealed number n, while Playing, with at least n flags
\* around it sweeps the cells around it in scan order, each if it is Hidden
\* when reached, and stops when the game is no longer Playing; with fewer
\* flags, on a cell that shows no number, or when the game is not Playing, it
\* changes nothing.  It returns the status.
C15_Explore ==
    Ready =>
        \A c \in Cells :
            \A r \in {explore(context, c[1], c[2])} :
                /\ r.ret = r.ctx.status
                /\ r.ctx =
                     IF /\ context.status = PLAYING
                        /\ Block(c) >= 0
                        /\ Cardinality(Around(c) \cap Flagged) >= Block(c)
                     THEN SweepInTurn(context, InOrder(Around(c)))
                     ELSE context

\* C15, over a whole game: in every state that play reaches, explore on any
\* cell is the in-turn sweep of the cells around a satisfied number, and no
\* change otherwise.
C15_ExploreAlways == []C15_Explore

\* A revealed number with enough flags around it, one of them on a cell
\* without a mine, and a Hidden mine beside it: explore loses the game.
C15_Witness ==
    /\ Ready
    /\ context.status = PLAYING
    /\ \E c \in Cells :
          /\ Block(c) >= 1
          /\ Cardinality(Around(c) \cap Flagged) >= Block(c)
          /\ \E n \in Around(c) \cap Flagged : ~IsMine(n)
          /\ \E n \in Around(c) : IsMine(n) /\ Block(n) = UNKNWON
          /\ explore(context, c[1], c[2]).ret = FAILED

\* C16: with showMinesOnlyOnFailed, sweeping a Hidden mine while Playing
\* leaves every Hidden or Questioned cell without a mine as it was, and still
\* shows the swept mine as ExplodedMine, the other mines as RevealedMine (or
\* Flagged if they were), and the flags on cells without a mine as WrongFlag.
C16_MinesOnly ==
    (Ready /\ context.status = PLAYING /\ showMinesOnlyOnFailed) =>
        \A s \in Cells :
            (Block(s) = UNKNWON /\ IsMine(s)) =>
                \A lost \in {sweep(context, s[1], s[2]).ctx} :
                   /\ lost.status = FAILED
                   /\ lost.blocks[s[2]][s[1]] = DEAD
                   /\ \A c \in Cells \ {s} :
                        lost.blocks[c[2]][c[1]] =
                            IF IsMine(c)
                            THEN (IF Block(c) = MARKED THEN MARKED ELSE MINE)
                            ELSE (IF Block(c) = MARKED THEN WRONG ELSE Block(c))

\* C16, over a whole game: in every Playing state that play reaches with
\* showMinesOnlyOnFailed, a loss shows the mines and the wrong flags and
\* nothing more.
C16_MinesOnlyAlways == []C16_MinesOnly

\* A game lost with showMinesOnlyOnFailed: cells without a mine are still
\* Hidden and Questioned, beside the exploded mine and a wrong flag.
C16_Witness ==
    /\ context.status = FAILED
    /\ showMinesOnlyOnFailed
    /\ \E c \in Cells : Block(c) = DEAD
    /\ \E c \in Cells : Block(c) = WRONG
    /\ \E c \in Cells : Block(c) = UNKNWON /\ ~IsMine(c)
    /\ \E c \in Cells : Block(c) = QUESTION /\ ~IsMine(c)

\* C18: WrongFlag, RevealedMine and ExplodedMine are shown only in a Lost
\* game.  While Playing or Won every cell is Hidden, Flagged, Questioned or a
\* number 0..8 that is its count of mines around; in a Lost game exactly one
\* cell is ExplodedMine.
C18_DisplayStates ==
    /\ context.status \in {PLAYING, WIN} =>
          \A c \in Cells :
              \/ Block(c) \in {UNKNWON, MARKED, QUESTION}
              \/ Block(c) \in 0 .. 8 /\ Block(c) = Count(c)
                    /\ Count(c) = Cardinality({n \in Around(c) : IsMine(n)})
    /\ context.status = FAILED =>
          Cardinality({c \in Cells : Block(c) = DEAD}) = 1

\* A Lost game on the largest board: one exploded mine, a mine that keeps its
\* flag and a wrong flag.
C18_Witness ==
    /\ context.status = FAILED
    /\ width * height = MaxCells
    /\ Cardinality({c \in Cells : Block(c) = DEAD}) = 1
    /\ \E c \in Cells : Block(c) = MARKED /\ IsMine(c)
    /\ \E c \in Cells : Block(c) = WRONG

====
